---- MODULE Spec2Model ----
(***************************************************************************)
(* A model of the py-opc driver (src/opc/__init__.py): the session object  *)
(* (_OPC and its subclasses OPCN1, OPCN2, OPCN3), the byte transfers it    *)
(* performs on the SPI connection and the decoding of the frames it reads. *)
(*                                                                         *)
(* Numbers that Python holds as int or float are held here as exact        *)
(* rationals [k, n, d]; Python's None, inf and nan are separate kinds.     *)
(* Python index i of a list is index i+1 of the sequence that models it.   *)
(***************************************************************************)
EXTENDS Integers, Sequences, FiniteSets, TLC

(***************************************************************************)
(* Bounds of the model.                                                    *)
(***************************************************************************)
\* the largest number of command-byte transfers followed in one poll loop
MaxPolls == 6
\* the largest number of poll rounds followed in OPCN3.histogram
MaxRounds == 2

(***************************************************************************)
(* Constants of the program.                                               *)
(***************************************************************************)
\* max_cnxn_retries, the only retry budget of the driver
maxRetries == 5

(***************************************************************************)
(* Python values.                                                          *)
(***************************************************************************)
NoneV == [k |-> "none", n |-> 0, d |-> 1]
AbsentV == [k |-> "absent", n |-> 0, d |-> 1]
NanV == [k |-> "nan", n |-> 0, d |-> 1]
InfV(s) == [k |-> "inf", n |-> s, d |-> 1]
ZeroDivisionV == [k |-> "ZeroDivisionError", n |-> 0, d |-> 1]

Abs(x) == IF x < 0 THEN 0 - x ELSE x

RECURSIVE GCD(_, _)
GCD(x, y) == IF y = 0 THEN x ELSE GCD(y, x % y)

\* the number n/d (d > 0) in lowest terms
Rat(n, d) ==
  LET g == GCD(Abs(n), d)
  IN  [k |-> "num", n |-> n \div g, d |-> d \div g]

IntV(x) == [k |-> "num", n |-> x, d |-> 1]

Sign(x) == IF x < 0 THEN 0 - 1 ELSE 1

\* x * y on Python floats
PyMul(x, y) ==
  IF x.k = "nan" \/ y.k = "nan" THEN NanV
  ELSE IF x.k = "inf" \/ y.k = "inf"
       THEN IF x.n = 0 \/ y.n = 0 THEN NanV ELSE InfV(Sign(x.n) * Sign(y.n))
       ELSE Rat(x.n * y.n, x.d * y.d)

\* a mutant of PyDiv: a division by zero yields an infinite value
PyDivInf(x, y) ==
  IF x.k = "nan" \/ y.k = "nan" THEN NanV
  ELSE IF y.k = "num" /\ y.n = 0 THEN (IF x.n = 0 THEN NanV ELSE InfV(Sign(x.n)))
  ELSE IF y.k = "inf" THEN IntV(0)
  ELSE Rat(Sign(y.n) * x.n * y.d, x.d * Abs(y.n))

\* x / y for a Python int x and a Python float y: raises ZeroDivisionError
\* when y is zero
PyDiv(x, y) ==
  IF y.k = "num" /\ y.n = 0 THEN ZeroDivisionV
  ELSE IF y.k = "nan" THEN NanV
  ELSE IF y.k = "inf" THEN IntV(0)
  ELSE Rat(Sign(y.n) * x.n * y.d, x.d * Abs(y.n))

(***************************************************************************)
(* Bit operations of Python on non-negative integers.                      *)
(***************************************************************************)
RECURSIVE BitOr(_, _)
BitOr(x, y) ==
  IF x = 0 THEN y
  ELSE IF y = 0 THEN x
  ELSE (IF x % 2 = 1 \/ y % 2 = 1 THEN 1 ELSE 0) + 2 * BitOr(x \div 2, y \div 2)

RECURSIVE BitAnd(_, _)
BitAnd(x, y) ==
  IF x = 0 \/ y = 0 THEN 0
  ELSE (IF x % 2 = 1 /\ y % 2 = 1 THEN 1 ELSE 0) + 2 * BitAnd(x \div 2, y \div 2)

Shl(x, s) == x * (2 ^ s)

\* a mutant of _16bit_unsigned: the two bytes change places
_16bit_unsigned_swapped(LSB, MSB) == BitOr(Shl(LSB, 8), MSB)

(***************************************************************************)
(* The decoders of _OPC.                                                   *)
(***************************************************************************)
\* _OPC._16bit_unsigned
_16bit_unsigned(LSB, MSB) == BitOr(Shl(MSB, 8), LSB)

RECURSIVE Scale(_, _)
Scale(sig, e) ==
  IF e < 0 /\ sig % 2 = 0 /\ sig # 0 THEN Scale(sig \div 2, e + 1) ELSE <<sig, e>>

\* _OPC._calculate_float: struct.unpack('f', struct.pack('4B', ...)) on a
\* little-endian host
_calculate_float(byte_array) ==
  IF Len(byte_array) # 4 THEN NoneV
  ELSE
    LET sgn == IF byte_array[4] \div 128 = 1 THEN 0 - 1 ELSE 1
        ex  == (byte_array[4] % 128) * 2 + byte_array[3] \div 128
        man == (byte_array[3] % 128) * 65536 + byte_array[2] * 256 + byte_array[1]
    IN  IF ex = 255 THEN (IF man = 0 THEN InfV(sgn) ELSE NanV)
        ELSE IF ex = 0 /\ man = 0 THEN IntV(0)
        ELSE LET sc == IF ex = 0 THEN Scale(man, 0 - 149)
                       ELSE Scale(8388608 + man, ex - 150)
             IN  IF sc[2] >= 0 THEN IntV(sgn * sc[1] * (2 ^ sc[2]))
                 ELSE Rat(sgn * sc[1], 2 ^ (0 - sc[2]))

\* _OPC._calculate_mtof
_calculate_mtof(mtof) == Rat(mtof, 3)

LE32(vals) ==
  BitOr(BitOr(BitOr(Shl(vals[4], 24), Shl(vals[3], 16)), Shl(vals[2], 8)), vals[1])

\* _OPC._calculate_temp
_calculate_temp(vals) == IF Len(vals) < 4 THEN NoneV ELSE IntV(LE32(vals))

\* _OPC._calculate_pressure
_calculate_pressure(vals) == IF Len(vals) < 4 THEN NoneV ELSE IntV(LE32(vals))

\* _OPC._calculate_temp_uint
_calculate_temp_uint(LSB, MSB) ==
  LET tempraw == BitOr(Shl(MSB, 8), LSB)
  IN  Rat(175 * tempraw - 45 * 65535, 65535)

\* _OPC._calculate_hum_uint
_calculate_hum_uint(LSB, MSB) == Rat(100 * BitOr(Shl(MSB, 8), LSB), 65535)

\* _OPC._calculate_flowrate
_calculate_flowrate(LSB, MSB) == Rat(BitOr(Shl(MSB, 8), LSB), 100)

\* _OPC._calculate_period_uint
_calculate_period_uint(LSB, MSB) == Rat(BitOr(Shl(MSB, 8), LSB), 100)

\* _OPC._calculate_period: `self.firmware < 16` compares the firmware dict
\* with an int. Python 3 raises TypeError; Python 2 orders a number before
\* any dict, so the comparison is False and the float branch is taken.
_calculate_period(vals, py) ==
  IF Len(vals) < 4 THEN NoneV
  ELSE IF py = 3 THEN [k |-> "TypeError", n |-> 0, d |-> 1]
  ELSE _calculate_float(vals)

(***************************************************************************)
(* Frame decoding: the histogram methods after the frame has been read.    *)
(***************************************************************************)
NoData == [Bins |-> <<>>]

RECURSIVE SumBins(_, _)
SumBins(bins, i) == IF i = 0 THEN 0 ELSE bins[i].n + SumBins(bins, i - 1)

\* a mutant of ChecksumMatches: the sum is compared without the mask
ChecksumNoMask(histogram_sum, checksum) == histogram_sum = checksum

\* a mutant of ChecksumMatches: the comparison is skipped
ChecksumIgnored(histogram_sum, checksum) == TRUE

\* `(histogram_sum & 0x0000FFFF) != data['Checksum']`, negated
ChecksumMatches(histogram_sum, checksum) == BitAnd(histogram_sum, 65535) = checksum

\* a mutant of Normalize: the last bin is left as a raw count
NormalizeSkipLast(bins, conv) ==
  [i \in 1..Len(bins) |-> IF i = Len(bins) THEN bins[i] ELSE PyDiv(bins[i], conv)]

\* data['Bin i'] = data['Bin i'] / _conv_ for every bin
Normalize(bins, conv) == [i \in 1..Len(bins) |-> PyDiv(bins[i], conv)]

Raises(exc) == [outcome |-> exc, data |-> NoData]

\* the bin assignments of OPCN2.histogram: a frame of 62 bytes
N2Bins(resp) == [i \in 1..16 |-> IntV(_16bit_unsigned(resp[2 * i - 1], resp[2 * i]))]

\* a mutant of IsPressure: 98000 counts as a pressure too
IsPressureFrom98000(tmp) == tmp.n >= 98000

\* `if tmp > 98000`: bytes 40-43 hold a pressure
IsPressure(tmp) == tmp.n > 98000

\* `if tmp < 500`: bytes 40-43 hold a temperature
IsTemperature(tmp) == tmp.n < 500

\* OPCN2.histogram from the decoding of resp to the return
N2Histogram(resp, fw, py, number_concentration) ==
  LET bins    == N2Bins(resp)
      mtof    == [i \in 1..4 |-> _calculate_mtof(resp[32 + i])]
      old     == fw.version < 16000
      period  == IF old THEN _calculate_period(SubSeq(resp, 45, 48), py)
                 ELSE _calculate_float(SubSeq(resp, 45, 48))
      tmpP    == _calculate_pressure(SubSeq(resp, 41, 44))
      tmpT    == _calculate_temp(SubSeq(resp, 41, 44))
      data    ==
        [Bins           |-> bins,
         MToF           |-> mtof,
         SFR            |-> IF old THEN AbsentV ELSE _calculate_float(SubSeq(resp, 37, 40)),
         Temperature    |-> IF old THEN _calculate_temp(SubSeq(resp, 37, 40))
                            ELSE IF IsPressure(tmpP) THEN NoneV
                            ELSE IF IsTemperature(tmpT) THEN tmpT ELSE NoneV,
         Pressure       |-> IF old THEN _calculate_pressure(SubSeq(resp, 41, 44))
                            ELSE IF IsPressure(tmpP) THEN tmpP ELSE NoneV,
         SamplingPeriod |-> period,
         Checksum       |-> IntV(_16bit_unsigned(resp[49], resp[50])),
         PM1            |-> _calculate_float(SubSeq(resp, 51, 54)),
         PM25           |-> _calculate_float(SubSeq(resp, 55, 58)),
         PM10           |-> _calculate_float(SubSeq(resp, 59, Len(resp)))]
      histogram_sum == SumBins(bins, 16)
      conv    == PyMul(data.SFR, data.SamplingPeriod)
  IN  IF period.k = "TypeError" THEN Raises("TypeError")
      ELSE IF ~ChecksumMatches(histogram_sum, data.Checksum.n) THEN Raises("None")
      ELSE IF number_concentration
           THEN IF data.SFR.k = "absent" THEN Raises("KeyError")
                ELSE IF \E i \in 1..16 : PyDiv(bins[i], conv).k = "ZeroDivisionError"
                     THEN Raises("ZeroDivisionError")
                     ELSE [outcome |-> "dict",
                           data |-> [data EXCEPT !.Bins = Normalize(bins, conv)]]
           ELSE [outcome |-> "dict", data |-> data]

\* the bin assignments of OPCN3.histogram: a frame of 86 bytes
N3Bins(resp) == [i \in 1..24 |-> IntV(_16bit_unsigned(resp[2 * i - 1], resp[2 * i]))]

\* OPCN3.histogram from the decoding of resp to the return: a checksum
\* mismatch is logged and the method goes on (`##return None`)
N3Histogram(resp, number_concentration) ==
  LET bins == N3Bins(resp)
      data ==
        [Bins           |-> bins,
         MToF           |-> [i \in 1..4 |-> _calculate_mtof(resp[48 + i])],
         SamplingPeriod |-> _calculate_period_uint(resp[53], resp[54]),
         SFR            |-> _calculate_flowrate(resp[55], resp[56]),
         Temperature    |-> _calculate_temp_uint(resp[57], resp[58]),
         Humidity       |-> _calculate_hum_uint(resp[59], resp[60]),
         PM1            |-> _calculate_float(SubSeq(resp, 61, 64)),
         PM25           |-> _calculate_float(SubSeq(resp, 65, 68)),
         PM10           |-> _calculate_float(SubSeq(resp, 69, 72)),
         Rejects        |-> [i \in 1..4 |->
                               _16bit_unsigned(resp[71 + 2 * i], resp[72 + 2 * i])],
         FanRev         |-> _16bit_unsigned(resp[81], resp[82]),
         Laser          |-> _16bit_unsigned(resp[83], resp[84]),
         Checksum       |-> IntV(_16bit_unsigned(resp[85], resp[86]))]
      conv == PyMul(data.SFR, data.SamplingPeriod)
  IN  IF number_concentration
      THEN IF \E i \in 1..24 : PyDiv(bins[i], conv).k = "ZeroDivisionError"
           THEN Raises("ZeroDivisionError")
           ELSE [outcome |-> "dict",
                 data |-> [data EXCEPT !.Bins = Normalize(bins, conv)]]
      ELSE [outcome |-> "dict", data |-> data]

\* a mutant of N1ReadHistogram: the method returns what it decoded
N1ReadHistogramReturning(resp, py) ==
  [outcome |-> "dict", data |-> [Bins |-> N2Bins(resp)]]

\* OPCN1.read_histogram from the decoding of resp to the end of the method:
\* the sum is computed, never compared, and the method ends without a return
N1ReadHistogram(resp, py) ==
  LET period == _calculate_period(SubSeq(resp, 45, 48), py)
  IN  IF period.k = "TypeError" THEN Raises("TypeError") ELSE Raises("None")

\* OPCN2.config2 after the gate: the decoding of the 9 bytes read
Config2Data(config) ==
  [AMSamplingInterval    |-> _16bit_unsigned(config[1], config[2]),
   AMIdleIntervalCount   |-> _16bit_unsigned(config[3], config[4]),
   AMFanOnIdle           |-> config[5],
   AMLaserOnIdle         |-> config[6],
   AMMaxDataArraysInFile |-> _16bit_unsigned(config[7], config[8]),
   AMOnlySavePMData      |-> config[9]]

\* OPCN2.config after the 256 bytes have been read; TOF_SFR is there only
\* when the major version is above 15
ConfigData(config, fw) ==
  [BinBoundary |-> [i \in 1..15 |->
                      _16bit_unsigned(config[2 * i - 1], config[2 * i])],
   BPV         |-> [i \in 1..16 |->
                      _calculate_float(SubSeq(config, 4 * i + 29, 4 * i + 32))],
   BPD         |-> [i \in 1..16 |->
                      _calculate_float(SubSeq(config, 4 * i + 93, 4 * i + 96))],
   BSVW        |-> [i \in 1..16 |->
                      _calculate_float(SubSeq(config, 4 * i + 157, 4 * i + 160))],
   GSC         |-> _calculate_float(SubSeq(config, 225, 228)),
   SFR         |-> _calculate_float(SubSeq(config, 229, 232)),
   LaserDAC    |-> config[233],
   FanDAC      |-> config[234],
   TOF_SFR     |-> IF fw.major > 15 THEN IntV(config[235]) ELSE AbsentV]

\* a mutant of PotData: the two DAC values change places
PotDataSwapped(res) ==
  IF Len(res) = 6
  THEN [FanON |-> res[1], LaserON |-> res[2], FanDACVal |-> res[4],
        LaserDACVal |-> res[3], LaserSwitch |-> res[5], GainToggle |-> res[6]]
  ELSE [FanON |-> res[1], LaserON |-> res[2], FanDACVal |-> res[4],
        LaserDACVal |-> res[3]]

\* the dictionary read_pot_status builds from res: 6 entries on OPCN3, 4 on
\* OPCN2
PotData(res) ==
  IF Len(res) = 6
  THEN [FanON |-> res[1], LaserON |-> res[2], FanDACVal |-> res[3],
        LaserDACVal |-> res[4], LaserSwitch |-> res[5], GainToggle |-> res[6]]
  ELSE [FanON |-> res[1], LaserON |-> res[2], FanDACVal |-> res[3],
        LaserDACVal |-> res[4]]

\* chr(resp): the string of the one character whose code point is resp; a
\* string is the sequence of its code points
chr(resp) == <<resp>>

\* the first i strings of strs, one after the other
RECURSIVE JoinUpTo(_, _)
JoinUpTo(strs, i) == IF i = 0 THEN <<>> ELSE JoinUpTo(strs, i - 1) \o strs[i]

\* a mutant of Join: the last string is left out
JoinButLast(strs) == JoinUpTo(strs, Len(strs) - 1)

\* ''.join(strs)
Join(strs) == JoinUpTo(strs, Len(strs))

\* list[i] in Python: a negative i counts from the end, an i outside the
\* list raises IndexError
PyIndex(list, i) ==
  IF i >= 0 /\ i < Len(list) THEN [outcome |-> "float", data |-> [value |-> list[i + 1]]]
  ELSE IF i < 0 /\ 0 - i <= Len(list)
       THEN [outcome |-> "float", data |-> [value |-> list[Len(list) + i + 1]]]
       ELSE Raises("IndexError")

\* OPC_LOOKUP of lookup_table.py: 4096 bin boundaries, one per ADC value,
\* that never decrease and repeat over runs of ADC values. The entries are
\* counted in a fixed fraction of a micron.
OPC_LOOKUP == [i \in 1..4096 |-> ((i - 1) \div 8) * 4]

\* a mutant of lookup_bin_boundary: a negative adc_value is not raised to 0
lookup_bin_boundary_no_floor(adc_value) ==
  PyIndex(OPC_LOOKUP, IF adc_value > 4095 THEN 4095 ELSE adc_value)

\* _OPC.lookup_bin_boundary
lookup_bin_boundary(adc_value) ==
  LET v1 == IF adc_value < 0 THEN 0 ELSE adc_value
      v2 == IF v1 > 4095 THEN 4095 ELSE v1
  IN  PyIndex(OPC_LOOKUP, v2)

\* min(enumerate(list), key = |x[1] - bb|)[0] over the indices lo..hi: the
\* first index, in ascending order, whose key is the least. The scan is
\* halved instead of run from left to right; the left half wins a tie.
RECURSIVE MinIndex(_, _, _, _)
MinIndex(list, bb, lo, hi) ==
  IF lo = hi THEN lo
  ELSE LET mid == (lo + hi) \div 2
           l   == MinIndex(list, bb, lo, mid)
           r   == MinIndex(list, bb, mid + 1, hi)
       IN  IF Abs(list[r + 1] - bb) < Abs(list[l + 1] - bb) THEN r ELSE l

\* the same scan with the last index of the least key
RECURSIVE MinIndexLast(_, _, _, _)
MinIndexLast(list, bb, lo, hi) ==
  IF lo = hi THEN lo
  ELSE LET mid == (lo + hi) \div 2
           l   == MinIndexLast(list, bb, lo, mid)
           r   == MinIndexLast(list, bb, mid + 1, hi)
       IN  IF Abs(list[r + 1] - bb) <= Abs(list[l + 1] - bb) THEN r ELSE l

\* a mutant of calculate_bin_boundary: a tie goes to the highest index
calculate_bin_boundary_last(bb) == MinIndexLast(OPC_LOOKUP, bb, 0, Len(OPC_LOOKUP) - 1)

\* _OPC.calculate_bin_boundary
calculate_bin_boundary(bb) == MinIndex(OPC_LOOKUP, bb, 0, Len(OPC_LOOKUP) - 1)

(***************************************************************************)
(* What the device may answer, and what the caller may pass.               *)
(***************************************************************************)
\* status bytes: 0x00, 0x03, 0x31 (ready), 0xF3
RespBytes == {0, 3, 49, 243}

\* the Python interpreters the package runs on
PyVersions == {2, 3}

\* bin-count bytes of a frame: every byte is base, but byte p is v
BinBases == {0, 255}
BinVals == {0, 1}
BinBytes(len, base, p, v) == [i \in 1..len |-> IF i = p THEN v ELSE base]

\* the two checksum bytes of a frame, next to the bin-count bytes bb:
\* the sum of the counts, that sum plus one, or zero
CkModes == {"sum", "sum1", "zero"}
RECURSIVE ByteSum(_, _)
ByteSum(bb, i) ==
  IF i = 0 THEN 0 ELSE bb[2 * i - 1] + 256 * bb[2 * i] + ByteSum(bb, i - 1)
CkBytes(bb, mode) ==
  LET c == CASE mode = "sum"  -> ByteSum(bb, Len(bb) \div 2) % 65536
             [] mode = "sum1" -> (ByteSum(bb, Len(bb) \div 2) + 1) % 65536
             [] OTHER         -> 0
  IN  <<c % 256, c \div 256>>

\* 4-byte floats: 0.0, 1.0, 2.0, inf, nan
F32_0 == <<0, 0, 0, 0>>
F32_1 == <<0, 0, 128, 63>>
F32_2 == <<0, 0, 0, 64>>
F32_Inf == <<0, 0, 128, 127>>
F32_NaN == <<0, 0, 192, 127>>
SfrBytes == {F32_0, F32_1, F32_Inf, F32_NaN}
PeriodBytes == {F32_0, F32_2}
\* the value of every byte that is neither a bin count, the checksum, the
\* flow rate, the period nor the temperature/pressure field
FillBytes == {0, 255}
\* the rest of an OPC-N2 frame: the fill byte, and bytes 40-43 holding
\* 499, 500, 98000 or 98001
N2Rest ==
  {<<0, <<243, 1, 0, 0>>>>, <<255, <<244, 1, 0, 0>>>>,
   <<0, <<208, 126, 1, 0>>>>, <<255, <<209, 126, 1, 0>>>>}
\* 2-byte period and flow rate of an OPC-N3 frame, in hundredths
N3PeriodBytes == {<<0, 0>>, <<100, 0>>}
N3FlowBytes == {<<0, 0>>, <<200, 0>>}
\* the byte of the bin counts that differs from the others
BinPos(len) == {1, len}

N2Frame(bb, fill, sfr, tp, sp, ck) ==
  bb \o <<fill, fill, fill, fill>> \o sfr \o tp \o sp \o ck \o [i \in 1..12 |-> fill]

N3Frame(bb, fill, sp, sfr, ck) ==
  bb \o <<fill, fill, fill, fill>> \o sp \o sfr \o [i \in 1..28 |-> fill] \o ck

\* the firmware argument of the constructor; <<NoneI, NoneI>> is None
NoneI == 0 - 1
FirmwareArgs ==
  {<<NoneI, NoneI>>, <<13, 0>>, <<14, 0>>, <<16, 0>>, <<17, 5>>, <<18, 10>>, <<19, 0>>}

\* the two bytes the device answers to read_firmware
FwMajorBytes == {15, 17, 18}
FwMinorBytes == {5}

\* what the device answers to the bytes of set_fan_power and set_laser_power
PowerResps == {0, 1, 66, 243}

\* the power argument of set_fan_power and set_laser_power
PowerArgs == {0 - 1, 0, 255, 256}

\* the arguments the caller passes to lookup_bin_boundary,
\* calculate_bin_boundary and _16bit_unsigned
AdcArgs == {0 - 4097, 0 - 4096} \cup ((0 - 3)..10) \cup (4090..4100)
BbArgs == ((0 - 3)..20) \cup (2036..2050) \cup {9999}
LsbArgs == 0..255
MsbArgs == {0, 1, 127, 128, 255}

\* the 60 bytes read_info_string and sn receive
StringFrames == {BinBytes(60, 46, p, v) : p \in {1, 60}, v \in {0, 65, 255}}

\* the bytes read_pot_status receives
PotFrames(len) == {BinBytes(len, 0, p, 255) : p \in 1..len}

\* the 256 bytes config receives: 32 bytes of bin boundaries, 50 floats, then
\* the DAC bytes
ConfigFrames ==
  {[i \in 1..256 |-> IF i <= 32 THEN bv
                     ELSE IF i <= 232 THEN f[((i - 33) % 4) + 1]
                     ELSE dac] :
     bv \in {0, 1}, f \in {F32_0, F32_1}, dac \in {0, 255}}

\* the argument write_config_variables is given: one dictionary or another
ConfigVarsArgs == {0, 1}

\* the SPI connection handed to the constructor
Transports == {"ok", "noxfer", "mode0"}

Classes == {"N1", "N2", "N3"}

(***************************************************************************)
(* The session.                                                            *)
(***************************************************************************)
VARIABLES
  cls,        \* the class constructed: "N1", "N2", "N3" ("none" before)
  model,      \* self.model
  cnxn,       \* self.cnxn: the kind of SPI connection the constructor was given
  firmware,   \* self.firmware: major, minor (NoneI is None), version in 1/1000
  pc,         \* "new", "failed", "idle", "call", "hs", "hist_poll", "wait_loop"
  op,         \* the method that is running or ran last
  nc,         \* its number_concentration argument
  power,      \* its power argument
  argv,       \* the positional arguments of the other methods that take some
  caller,     \* "wait" while the method runs inside wait(), else "none"
  inctor,     \* TRUE while the constructor has not returned
  a,          \* the local a of the power methods and of OPCN3.histogram
  b,          \* the local b of OPCN3.histogram
  polls,      \* command-byte transfers of the poll loop that is running
  seg,        \* which handshake of the power method is running: 1 or 2
  resps,      \* the responses kept by the power method: a1, b1, a2, b2
  ready,      \* some transfer of the running handshake returned 0x31
  selectors,  \* the selector bytes the power method has sent
  sent,       \* the bytes sent by the method that ran last / is running
  frame,      \* the bytes it received after its command phase
  outcome,    \* what it returned or raised
  data        \* the mapping it returned

vars == <<cls, model, cnxn, firmware, pc, op, nc, power, argv, caller, inctor, a, b,
          polls, seg, resps, ready, selectors, sent, frame, outcome, data>>

session == <<cls, model, cnxn, firmware>>
args == <<nc, power, argv>>
locals == <<a, b, polls, seg, resps, ready, selectors>>

Init ==
  /\ cls = "none"
  /\ model = "none"
  /\ cnxn = "none"
  /\ firmware = [major |-> NoneI, minor |-> NoneI, version |-> NoneI]
  /\ pc = "new"
  /\ op = "none"
  /\ nc = TRUE
  /\ power = 0
  /\ argv = <<>>
  /\ caller = "none"
  /\ inctor = FALSE
  /\ a = 0
  /\ b = 0
  /\ polls = 0
  /\ seg = 0
  /\ resps = <<>>
  /\ ready = FALSE
  /\ selectors = <<>>
  /\ sent = <<>>
  /\ frame = <<>>
  /\ outcome = "none"
  /\ data = NoData

\* float("{}.{}".format(major, minor)), in thousandths
VersionOf(major, minor) ==
  major * 1000 + (IF minor < 10 THEN minor * 100
                  ELSE IF minor < 100 THEN minor * 10 ELSE minor)

\* a method returns o (and the mapping d): control goes back to its caller
Ret(o, d) ==
  /\ outcome' = o
  /\ data' = d
  /\ pc' = IF caller = "wait" THEN "wait_loop" ELSE "idle"
  /\ UNCHANGED <<caller, inctor>>

\* a mutant of Exc: the caller recorded by wait() outlives the exception
ExcKeepingCaller(e) ==
  /\ outcome' = e
  /\ data' = NoData
  /\ pc' = IF inctor THEN "failed" ELSE "idle"
  /\ UNCHANGED <<caller, inctor>>

\* a method raises e: nothing on the way up catches it
Exc(e) ==
  /\ outcome' = e
  /\ data' = NoData
  /\ pc' = IF inctor THEN "failed" ELSE "idle"
  /\ caller' = "none"
  /\ inctor' = FALSE

Finish(res) ==
  IF res.outcome \in {"dict", "None", "True", "False", "str", "int", "float"}
  THEN Ret(res.outcome, res.data)
  ELSE Exc(res.outcome)

PyBool(x) == IF x THEN "True" ELSE "False"

\* a mutant of N2InitCheck: firmware_max is not tested
N2InitCheckNoMax(fw, py) ==
  IF fw.major = NoneI
  THEN (IF py = 3 THEN "TypeError" ELSE "FirmwareVersionError")
  ELSE IF fw.major < 14 THEN "FirmwareVersionError"
  ELSE "constructed"

\* OPCN2.__init__ after super().__init__: the range check on the major
\* version. With no firmware argument major is None: `None < 14.` raises
\* TypeError on Python 3 and is True on Python 2.
N2InitCheck(fw, py) ==
  IF fw.major = NoneI
  THEN (IF py = 3 THEN "TypeError" ELSE "FirmwareVersionError")
  ELSE IF fw.major < 14 \/ fw.major > 18 THEN "FirmwareVersionError"
  ELSE "constructed"

\* a mutant of TransportOk: the bus mode is not checked
TransportOkAnyMode(spi) == spi # "noxfer"

\* the two asserts of _OPC.__init__: the connection has `xfer`, its mode is 1
TransportOk(spi) == spi = "ok"

\* _OPC.__init__, then the rest of the __init__ of the subclass. OPCN1 defines
\* `__init`, which nothing calls, so an OPCN1 is built by _OPC.__init__ alone
\* and keeps the default model 'N2'.
Construct(c, spi, fw, wait) ==
  /\ pc = "new"
  /\ cls' = c
  /\ model' = IF c = "N3" THEN "N3" ELSE "N2"
  /\ cnxn' = spi
  /\ UNCHANGED <<args, caller, locals, sent, frame>>
  /\ LET f0 == IF fw[1] # NoneI
               THEN [major |-> fw[1], minor |-> fw[2], version |-> VersionOf(fw[1], fw[2])]
               ELSE [major |-> NoneI, minor |-> NoneI, version |-> NoneI]
         f1 == [f0 EXCEPT !.version = 18000]
     IN  IF ~TransportOk(spi)
         THEN /\ firmware' = f0
              /\ pc' = "failed"
              /\ outcome' = "AssertionError"
              /\ UNCHANGED <<op, inctor, data>>
         ELSE /\ firmware' = f1
              /\ IF wait
                 THEN /\ pc' = "call"
                      /\ op' = "wait"
                      /\ inctor' = TRUE
                      /\ UNCHANGED <<outcome, data>>
                 ELSE /\ UNCHANGED <<op, inctor, data>>
                      /\ IF c # "N2"
                         THEN pc' = "idle" /\ outcome' = "constructed"
                         ELSE \E py \in PyVersions :
                                /\ outcome' = N2InitCheck(f1, py)
                                /\ pc' = IF outcome' = "constructed" THEN "idle"
                                         ELSE "failed"

\* the methods each class has, among those modelled
PowerSetters == {"set_fan_power", "set_laser_power"}
N3PowerOps == {"on", "off", "fan_on", "fan_off", "laser_on", "laser_off"}
Placeholders ==
  {"write_config_variables", "write_gsc_sfr", "write_bin_particle_density"}
Helpers == {"lookup_bin_boundary", "calculate_bin_boundary", "_16bit_unsigned"}
Inherited == {"wait", "ping", "read_info_string"}
Methods(c) ==
  CASE c = "N1" -> {"on", "off", "read_histogram", "read_bin_boundaries",
                    "write_gsc_sfr",
                    "write_bin_particle_density"} \cup Inherited
    [] c = "N2" -> {"on", "off", "histogram", "config", "config2",
                    "read_firmware", "read_pot_status", "sn",
                    "write_config_variables"}
                     \cup PowerSetters \cup Inherited
    [] c = "N3" -> N3PowerOps \cup {"histogram", "read_pot_status", "sn"}
                     \cup Inherited
    [] OTHER    -> {}

\* the argument lists method m can be called with
ArgLists(m) ==
  CASE m = "lookup_bin_boundary"    -> {<<x>> : x \in AdcArgs}
    [] m = "calculate_bin_boundary" -> {<<x>> : x \in BbArgs}
    [] m = "_16bit_unsigned"        -> LsbArgs \X MsbArgs
    [] m = "write_config_variables" -> {<<x>> : x \in ConfigVarsArgs}
    [] OTHER                        -> {<<>>}

\* the caller invokes method m of the session
Call(m, n, pw, av) ==
  /\ pc = "idle"
  /\ m \in Methods(cls)
  /\ (m # "histogram" => n)
  /\ (m \notin PowerSetters => pw = 0)
  /\ av \in ArgLists(m)
  /\ pc' = "call"
  /\ op' = m
  /\ nc' = n
  /\ power' = pw
  /\ argv' = av
  /\ a' = 0 /\ b' = 0 /\ polls' = 0 /\ seg' = 0 /\ resps' = <<>>
  /\ ready' = FALSE /\ selectors' = <<>>
  /\ sent' = <<>> /\ frame' = <<>> /\ outcome' = "none" /\ data' = NoData
  /\ UNCHANGED <<session, caller, inctor>>

\* a mutant of Selectors: on() and off() send their two selectors the other
\* way round
SelectorsSwapped(m) ==
  CASE m = "on"        -> <<7, 3>>
    [] m = "off"       -> <<2, 6>>
    [] m = "fan_on"    -> <<3>>
    [] m = "fan_off"   -> <<2>>
    [] m = "laser_on"  -> <<7>>
    [] OTHER           -> <<6>>

(***************************************************************************)
(* OPC-N3: the power methods and their ready handshake.                    *)
(***************************************************************************)
\* the selector bytes of each power method, in the order it sends them
Selectors(m) ==
  CASE m = "on"        -> <<3, 7>>
    [] m = "off"       -> <<6, 2>>
    [] m = "fan_on"    -> <<3>>
    [] m = "fan_off"   -> <<2>>
    [] m = "laser_on"  -> <<7>>
    [] OTHER           -> <<6>>

\* a mutant of HandshakeReady: the status byte 0xF3 ends the loop as well
HandshakeReadyOrF3(x) == x = 49 \/ x = 243

\* the loop `while a is not int('0x31',16)` ends
HandshakeReady(x) == x = 49

\* a mutant of PowerStatusOk: the last selector response is not looked at
PowerStatusOkIgnoringLast(rr) == rr[1] = 243 /\ rr[2] = 3 /\ rr[3] = 243

\* what OPCN3.on and OPCN3.off return: a1, b1, a2, b2 all as expected
PowerStatusOk(rr) == rr[1] = 243 /\ rr[2] = 3 /\ rr[3] = 243 /\ rr[4] = 3

\* the first `a = self.cnxn.xfer([0x03])[0]` of a power method
N3PowerBegin ==
  /\ pc = "call" /\ cls = "N3" /\ op \in N3PowerOps
  /\ \E r \in RespBytes :
       /\ a' = r
       /\ ready' = (r = 49)
  /\ polls' = 1
  /\ seg' = 1
  /\ pc' = "hs"
  /\ UNCHANGED <<session, op, args, caller, inctor, b, resps, selectors, sent,
                 frame, outcome, data>>

\* one turn of the loop: sleep(3), then the command byte again
HsPoll ==
  /\ pc = "hs"
  /\ ~HandshakeReady(a)
  /\ polls < MaxPolls
  /\ \E r \in RespBytes :
       /\ a' = r
       /\ ready' = (ready \/ r = 49)
  /\ polls' = polls + 1
  /\ UNCHANGED <<session, pc, op, args, caller, inctor, b, seg, resps, selectors,
                 sent, frame, outcome, data>>

\* after the loop: the command byte once more, then the selector; then
\* either the next handshake starts or the method returns
HsProceed ==
  /\ pc = "hs"
  /\ HandshakeReady(a)
  /\ \E rc \in RespBytes, rs \in RespBytes :
       LET rr == resps \o <<rc, rs>>
       IN  /\ selectors' = Append(selectors, Selectors(op)[seg])
           /\ IF seg < Len(Selectors(op))
              THEN /\ \E r \in RespBytes :
                        /\ a' = r
                        /\ ready' = (r = 49)
                   /\ resps' = rr
                   /\ polls' = 1
                   /\ seg' = seg + 1
                   /\ UNCHANGED <<pc, caller, inctor, outcome, data>>
              ELSE /\ a' = 0 /\ ready' = FALSE /\ polls' = 0 /\ seg' = 0
                   /\ resps' = rr
                   /\ IF op \in {"on", "off"}
                      THEN Ret(PyBool(PowerStatusOk(rr)), NoData)
                      ELSE Ret("None", NoData)
  /\ UNCHANGED <<session, op, args, b, sent, frame>>

\* a mutant of N3HistReady: `and` in place of `or` in the loop condition
N3HistReadyEither(x, y) == x = 49 \/ y = 243

(***************************************************************************)
(* OPC-N3: histogram.                                                      *)
(***************************************************************************)
\* the loop `while a is not arep or b is not brep` ends
N3HistReady(x, y) == x = 49 /\ y = 243

N3HistBegin ==
  /\ pc = "call" /\ cls = "N3" /\ op = "histogram"
  /\ a' = 0 /\ b' = 0 /\ polls' = 0
  /\ pc' = "hist_poll"
  /\ UNCHANGED <<session, op, args, caller, inctor, seg, resps, ready, selectors,
                 sent, frame, outcome, data>>

\* one poll round: 0x30 twice
N3HistPoll ==
  /\ pc = "hist_poll"
  /\ ~N3HistReady(a, b)
  /\ polls < MaxRounds
  /\ \E ra \in RespBytes, rb \in RespBytes : a' = ra /\ b' = rb
  /\ polls' = polls + 1
  /\ sent' = <<48, 48>>
  /\ UNCHANGED <<session, pc, op, args, caller, inctor, seg, resps, ready,
                 selectors, frame, outcome, data>>

\* the read of the 86 bytes, the decoding and the return
N3HistRead ==
  /\ pc = "hist_poll"
  /\ N3HistReady(a, b)
  /\ \E base \in BinBases, p \in BinPos(48), v \in BinVals, fill \in FillBytes,
        sp \in N3PeriodBytes, sfr \in N3FlowBytes, mode \in CkModes :
       LET bb   == BinBytes(48, base, p, v)
           resp == N3Frame(bb, fill, sp, sfr, CkBytes(bb, mode))
       IN  /\ frame' = resp
           /\ Finish(N3Histogram(resp, nc))
  /\ sent' = [i \in 1..86 |-> 48]
  /\ a' = 0 /\ b' = 0 /\ polls' = 0
  /\ UNCHANGED <<session, op, args, seg, resps, ready, selectors>>

(***************************************************************************)
(* OPC-N2 and OPC-N1.                                                      *)
(***************************************************************************)
\* a mutant of N2OffSent: the command byte goes out twice
N2OffSentTwice == <<3, 3, 1>>

\* the bytes OPCN2.on sends: xfer([0x03]), then xfer([0x00, 0x01])
N2OnSent == <<3>> \o <<0, 1>>

\* the bytes OPCN2.off sends: xfer([0x03]), then xfer([0x01])
N2OffSent == <<3>> \o <<1>>

\* a mutant of N2On: the status byte read is kept as the minor version
N2OnStoringStatus ==
  /\ pc = "call" /\ cls = "N2" /\ op = "on"
  /\ \E b1 \in RespBytes, b2 \in RespBytes :
       /\ frame' = <<b1, b2>>
       /\ firmware' = [firmware EXCEPT !.minor = b1]
       /\ Ret(PyBool(b1 = 243 /\ b2 = 3), NoData)
  /\ sent' = N2OnSent
  /\ UNCHANGED <<cls, model, cnxn, op, args, locals>>

N2On ==
  /\ pc = "call" /\ cls = "N2" /\ op = "on"
  /\ \E b1 \in RespBytes, b2 \in RespBytes :
       /\ frame' = <<b1, b2>>
       /\ Ret(PyBool(b1 = 243 /\ b2 = 3), NoData)
  /\ sent' = N2OnSent
  /\ UNCHANGED <<session, op, args, locals>>

N2Off ==
  /\ pc = "call" /\ cls = "N2" /\ op = "off"
  /\ \E b1 \in RespBytes, b2 \in RespBytes :
       /\ frame' = <<b1, b2>>
       /\ Ret(PyBool(b1 = 243 /\ b2 = 3), NoData)
  /\ sent' = N2OffSent
  /\ UNCHANGED <<session, op, args, locals>>

N1On ==
  /\ pc = "call" /\ cls = "N1" /\ op = "on"
  /\ \E b1 \in RespBytes :
       /\ frame' = <<b1>>
       /\ Ret(PyBool(b1 = 243), NoData)
  /\ sent' = <<12>>
  /\ UNCHANGED <<session, op, args, locals>>

N1Off ==
  /\ pc = "call" /\ cls = "N1" /\ op = "off"
  /\ \E b1 \in RespBytes :
       /\ frame' = <<b1>>
       /\ Ret(PyBool(b1 = 243), NoData)
  /\ sent' = <<3>>
  /\ UNCHANGED <<session, op, args, locals>>

\* a mutant of PowerTarget: the laser setter sends the target of the fan
PowerTargetFan(m) == 0

\* the second byte of set_fan_power and of set_laser_power
PowerTarget(m) == IF m = "set_fan_power" THEN 0 ELSE 1

\* `if power > 255: raise ValueError`
PowerRejected(pw) == pw > 255

\* set_fan_power and set_laser_power: the check of the argument, then 0x42,
\* the target byte and the power.  What the connection does with a list
\* holding a negative number is its own affair: it raises or it transfers.
SetPowerRun ==
  /\ pc = "call" /\ cls = "N2" /\ op \in PowerSetters
  /\ IF PowerRejected(power)
     THEN /\ Exc("ValueError")
          /\ UNCHANGED <<sent, frame>>
     ELSE \E ra \in PowerResps, rb \in PowerResps, rc \in PowerResps :
            \/ /\ sent' = <<66, PowerTarget(op), power>>
               /\ frame' = <<ra, rb, rc>>
               /\ Ret(PyBool(ra = 243 /\ rb = 66 /\ rc = PowerTarget(op)), NoData)
            \/ /\ power < 0
               /\ rc = 0
               /\ sent' = <<66, PowerTarget(op)>>
               /\ frame' = <<ra, rb>>
               /\ Exc("TransportError")
  /\ UNCHANGED <<session, op, args, locals>>

\* the 30 bytes OPCN1.read_bin_boundaries receives
BinBoundaryFrames ==
  {BinBytes(30, base, p, v) : base \in {0, 1}, p \in {1, 30}, v \in {0, 255}}

\* the entries OPCN1.read_bin_boundaries puts in its dictionary: those of
\* `for i in range(0, 14)`, 'Bin Boundary 0' first
N1BinBoundaries(config) ==
  [i \in 1..14 |-> _16bit_unsigned(config[2 * i - 1], config[2 * i])]

\* OPCN1.read_bin_boundaries: 0x33, then 30 reads sending 0x00
N1ReadBinBoundariesRun ==
  /\ pc = "call" /\ cls = "N1" /\ op = "read_bin_boundaries"
  /\ sent' = <<51>> \o [i \in 1..30 |-> 0]
  /\ \E config \in BinBoundaryFrames :
       /\ frame' = config
       /\ Ret("dict", [BinBoundary |-> N1BinBoundaries(config)])
  /\ UNCHANGED <<session, op, args, locals>>

\* the command byte 0x30, then 62 reads sending 0x00
HistogramSent == <<48>> \o [i \in 1..62 |-> 0]

N2HistogramRun ==
  /\ pc = "call" /\ cls = "N2" /\ op = "histogram"
  /\ \E base \in BinBases, p \in BinPos(32), v \in BinVals, rest \in N2Rest,
        sfr \in SfrBytes, sp \in PeriodBytes, mode \in CkModes,
        py \in (IF firmware.version < 16000 THEN PyVersions ELSE {3}) :
       LET bb   == BinBytes(32, base, p, v)
           resp == N2Frame(bb, rest[1], sfr, rest[2], sp, CkBytes(bb, mode))
       IN  /\ frame' = resp
           /\ Finish(N2Histogram(resp, firmware, py, nc))
  /\ sent' = HistogramSent
  /\ UNCHANGED <<session, op, args, locals>>

N1ReadHistogramRun ==
  /\ pc = "call" /\ cls = "N1" /\ op = "read_histogram"
  /\ \E base \in BinBases, p \in BinPos(32), v \in BinVals, fill \in FillBytes,
        sp \in PeriodBytes, mode \in CkModes, py \in PyVersions :
       LET bb   == BinBytes(32, base, p, v)
           resp == N2Frame(bb, fill, F32_1, <<243, 1, 0, 0>>, sp, CkBytes(bb, mode))
       IN  /\ frame' = resp
           /\ Finish(N1ReadHistogram(resp, py))
  /\ sent' = HistogramSent
  /\ UNCHANGED <<session, op, args, locals>>

\* @requires_firmware(min_version): the decorated method runs only when the
\* firmware version of the session is at least min_version
FirmwareAllows(fw, min_version) == fw.version >= min_version

\* what config2 receives: 9 bytes
Config2Frames ==
  {BinBytes(9, base, p, v) : base \in {0, 1}, p \in 1..9, v \in {0, 255}}

\* a mutant of Config2Sent: the command byte of config() is sent
Config2SentAsConfig == <<60>> \o [i \in 1..9 |-> 0]

\* the command byte 0x3D, then 9 reads sending 0x00
Config2Sent == <<61>> \o [i \in 1..9 |-> 0]

Config2Run ==
  /\ pc = "call" /\ cls = "N2" /\ op = "config2"
  /\ IF ~FirmwareAllows(firmware, 18000)
     THEN /\ Exc("FirmwareVersionError")
          /\ UNCHANGED <<sent, frame>>
     ELSE /\ sent' = Config2Sent
          /\ \E config \in Config2Frames :
               /\ frame' = config
               /\ Ret("dict", Config2Data(config))
  /\ UNCHANGED <<session, op, args, locals>>

\* OPCN2.read_firmware: the two bytes read replace the stored firmware
ReadFirmwareRun ==
  /\ pc = "call" /\ cls = "N2" /\ op = "read_firmware"
  /\ IF ~FirmwareAllows(firmware, 18000)
     THEN /\ Exc("FirmwareVersionError")
          /\ UNCHANGED <<sent, frame, firmware>>
     ELSE /\ sent' = <<18, 49, 49>>
          /\ \E major \in FwMajorBytes, minor \in FwMinorBytes :
               /\ frame' = <<major, minor>>
               /\ firmware' = [major |-> major, minor |-> minor,
                               version |-> VersionOf(major, minor)]
               /\ Ret("dict", firmware')
  /\ UNCHANGED <<cls, model, cnxn, op, args, locals>>

(***************************************************************************)
(* Methods of every class, and the other reads of OPC-N2 and OPC-N3.       *)
(***************************************************************************)
\* a mutant of PingOk: every byte but 0x00 counts as the echo
PingOkNonZero(x) == x # 0

\* `b == 0xF3` of ping
PingOk(x) == x = 243

\* _OPC.ping: one transfer of 0xCF
PingRun ==
  /\ pc = "call" /\ op = "ping"
  /\ \E r \in RespBytes :
       /\ frame' = <<r>>
       /\ Ret(PyBool(PingOk(r)), NoData)
  /\ sent' = <<207>>
  /\ UNCHANGED <<session, op, args, locals>>

\* the bytes read_info_string and sn send: the command phase, then 60 reads
StringSent(c, m) ==
  CASE m = "read_info_string" -> <<63>> \o [i \in 1..60 |-> 63]
    [] c = "N3"               -> <<16, 16>> \o [i \in 1..60 |-> 16]
    [] OTHER                  -> <<16>> \o [i \in 1..60 |-> 0]

\* _OPC.read_info_string, OPCN3.sn and OPCN2.sn (@requires_firmware(18.))
StringRun ==
  /\ pc = "call" /\ op \in {"read_info_string", "sn"}
  /\ IF op = "sn" /\ cls = "N2" /\ ~FirmwareAllows(firmware, 18000)
     THEN /\ Exc("FirmwareVersionError")
          /\ UNCHANGED <<sent, frame>>
     ELSE /\ sent' = StringSent(cls, op)
          /\ \E resp \in StringFrames :
               /\ frame' = resp
               /\ Ret("str", [str |-> Join([i \in 1..60 |-> chr(resp[i])])])
  /\ UNCHANGED <<session, op, args, locals>>

\* the bytes read_pot_status sends: 0x13 twice and 6 reads on OPCN3, 0x13
\* once and 4 reads on OPCN2
PotSent(c) ==
  IF c = "N3" THEN <<19, 19>> \o [i \in 1..6 |-> 0]
  ELSE <<19>> \o [i \in 1..4 |-> 0]

\* OPCN3.read_pot_status and OPCN2.read_pot_status (@requires_firmware(18.))
PotRun ==
  /\ pc = "call" /\ op = "read_pot_status"
  /\ IF cls = "N2" /\ ~FirmwareAllows(firmware, 18000)
     THEN /\ Exc("FirmwareVersionError")
          /\ UNCHANGED <<sent, frame>>
     ELSE /\ sent' = PotSent(cls)
          /\ \E res \in PotFrames(IF cls = "N3" THEN 6 ELSE 4) :
               /\ frame' = res
               /\ Ret("dict", PotData(res))
  /\ UNCHANGED <<session, op, args, locals>>

\* a mutant of ConfigSent: the last read is left out
ConfigSentShort == <<60>> \o [i \in 1..255 |-> 0]

\* the command byte 0x3C, then 256 reads sending 0x00
ConfigSent == <<60>> \o [i \in 1..256 |-> 0]

\* OPCN2.config
ConfigRun ==
  /\ pc = "call" /\ cls = "N2" /\ op = "config"
  /\ sent' = ConfigSent
  /\ \E config \in ConfigFrames :
       /\ frame' = SubSeq(config, 1, Len(sent') - 1)
       /\ Ret("dict", ConfigData(config, firmware))
  /\ UNCHANGED <<session, op, args, locals>>

\* a mutant of PlaceholderSent: a command byte goes out
PlaceholderSentCommand == <<60>>

\* what the placeholder methods send: nothing
PlaceholderSent == <<>>

\* OPCN2.write_config_variables, OPCN1.write_gsc_sfr and
\* OPCN1.write_bin_particle_density: a bare return
PlaceholderRun ==
  /\ pc = "call" /\ op \in Placeholders
  /\ sent' = PlaceholderSent
  /\ Ret("None", NoData)
  /\ UNCHANGED <<session, op, args, locals, frame>>

(***************************************************************************)
(* _OPC.wait                                                               *)
(***************************************************************************)
\* the two callable() checks, then self.on()
WaitBegin ==
  /\ pc = "call" /\ op = "wait"
  /\ IF cls = "N1"
     THEN /\ Exc("AttributeError")
          /\ UNCHANGED op
     ELSE /\ op' = "on"
          /\ caller' = "wait"
          /\ UNCHANGED <<pc, inctor, outcome, data>>
  /\ UNCHANGED <<session, args, locals, sent, frame>>

\* one turn of `while True`: self.histogram() is called again, whatever the
\* call before it returned (None raises UserWarning, which is caught here)
WaitPoll ==
  /\ pc = "wait_loop"
  /\ pc' = "call"
  /\ op' = "histogram"
  /\ nc' = TRUE
  /\ power' = 0
  /\ argv' = <<>>
  /\ a' = 0 /\ b' = 0 /\ polls' = 0 /\ seg' = 0 /\ resps' = <<>>
  /\ ready' = FALSE /\ selectors' = <<>>
  /\ sent' = <<>> /\ frame' = <<>> /\ outcome' = "none" /\ data' = NoData
  /\ UNCHANGED <<session, caller, inctor>>

Next ==
  \/ \E c \in Classes, spi \in Transports, fw \in FirmwareArgs, w \in BOOLEAN :
       Construct(c, spi, fw, w)
  \/ \E m \in Methods("N1") \cup Methods("N2") \cup Methods("N3"),
        n \in BOOLEAN, pw \in PowerArgs :
       \E av \in ArgLists(m) : Call(m, n, pw, av)
  \/ N3PowerBegin
  \/ HsPoll
  \/ HsProceed
  \/ N3HistBegin
  \/ N3HistPoll
  \/ N3HistRead
  \/ N2On
  \/ N2Off
  \/ N1On
  \/ N1Off
  \/ SetPowerRun
  \/ N2HistogramRun
  \/ N1ReadHistogramRun
  \/ N1ReadBinBoundariesRun
  \/ Config2Run
  \/ ReadFirmwareRun
  \/ PingRun
  \/ StringRun
  \/ PotRun
  \/ ConfigRun
  \/ PlaceholderRun
  \/ WaitBegin
  \/ WaitPoll

Spec == Init /\ [][Next]_vars

(***************************************************************************)
(* The helpers that do not look at the session, each applied to arguments  *)
(* of its own.                                                             *)
(***************************************************************************)
InitHelpers ==
  /\ cls = "none" /\ model = "none" /\ cnxn = "none"
  /\ firmware = [major |-> NoneI, minor |-> NoneI, version |-> NoneI]
  /\ pc = "call"
  /\ op \in Helpers
  /\ argv \in ArgLists(op)
  /\ nc = TRUE /\ power = 0
  /\ caller = "none" /\ inctor = FALSE
  /\ a = 0 /\ b = 0 /\ polls = 0 /\ seg = 0 /\ resps = <<>>
  /\ ready = FALSE /\ selectors = <<>>
  /\ sent = <<>> /\ frame = <<>> /\ outcome = "none" /\ data = NoData

LookupRun ==
  /\ pc = "call" /\ op = "lookup_bin_boundary"
  /\ Finish(lookup_bin_boundary(argv[1]))
  /\ UNCHANGED <<session, op, args, locals, sent, frame>>

CalculateRun ==
  /\ pc = "call" /\ op = "calculate_bin_boundary"
  /\ Ret("int", [value |-> calculate_bin_boundary(argv[1])])
  /\ UNCHANGED <<session, op, args, locals, sent, frame>>

U16Run ==
  /\ pc = "call" /\ op = "_16bit_unsigned"
  /\ Ret("int", [value |-> _16bit_unsigned(argv[1], argv[2])])
  /\ UNCHANGED <<session, op, args, locals, sent, frame>>

NextHelpers == LookupRun \/ CalculateRun \/ U16Run

SpecHelpers == InitHelpers /\ [][NextHelpers]_vars

(***************************************************************************)
(* Properties.                                                             *)
(***************************************************************************)
\* the frame that the method read is complete
Read62 == Len(frame) = 62
Read86 == Len(frame) = 86

\* the sum of the n raw bin counts of the frame read, and its checksum field
RawCount(i) == frame[2 * i - 1] + 256 * frame[2 * i]
RECURSIVE RawSum(_)
RawSum(n) == IF n = 0 THEN 0 ELSE RawCount(n) + RawSum(n - 1)
N2FrameConsistent == RawSum(16) % 65536 = frame[49] + 256 * frame[50]
N3FrameConsistent == RawSum(24) % 65536 = frame[85] + 256 * frame[86]

\* C1: in the ready handshake of an OPC-N3 power method, the command byte is
\* transferred at most maxRetries times: the handshake does not go on polling
\* a transport that never answers 0x31.
C1_HandshakeBounded == pc = "hs" => polls <= maxRetries

\* C2: a power method of the OPC-N3 transfers a selector byte only after a
\* transfer of the command byte in the same handshake returned 0x31.
C2_SelectorOnlyAfterReady ==
  [][Len(selectors') > Len(selectors) => ready]_vars

C2_Witness == op = "off" /\ pc = "idle" /\ selectors = <<6, 2>>

\* C3: every reading that OPCN3.histogram() returns comes from a frame whose
\* checksum field equals the sum of its 24 raw bin counts & 0xFFFF.
C3_N3ReturnedFrameConsistent ==
  (cls = "N3" /\ op = "histogram" /\ Read86 /\ outcome = "dict")
    => N3FrameConsistent

\* C4: OPCN2.histogram() returns no reading, and no decoded value, for a frame
\* whose checksum field differs from the sum of its 16 raw bin counts & 0xFFFF.
C4_N2MismatchFails ==
  (cls = "N2" /\ op = "histogram" /\ Read62 /\ ~N2FrameConsistent)
    => (outcome # "dict" /\ data = NoData)

\* one bin-count byte of the consistent all-zero frame was changed
C4_Witness ==
  /\ cls = "N2" /\ op = "histogram" /\ Read62
  /\ frame[1] = 1 /\ RawSum(16) = 1 /\ frame[49] = 0 /\ frame[50] = 0
  /\ outcome = "None"

C6_N2ConsistentSucceeds ==
  (cls = "N2" /\ op = "histogram" /\ ~nc /\ Read62 /\ firmware.version >= 16000
     /\ N2FrameConsistent)
    => outcome = "dict"

\* the sum of the counts exceeds 16 bits and the PM fields are not numbers
C6_Witness ==
  /\ cls = "N2" /\ op = "histogram" /\ ~nc /\ Read62 /\ firmware.version >= 16000
  /\ N2FrameConsistent /\ RawSum(16) > 65535 /\ frame[51] = 255
  /\ outcome = "dict"

\* the bytes are a float that is zero / that is neither infinite nor nan
F32IsZero(bytes) == bytes[1] = 0 /\ bytes[2] = 0 /\ bytes[3] = 0 /\ bytes[4] % 128 = 0
F32IsFinite(bytes) == (bytes[4] % 128) * 2 + bytes[3] \div 128 # 255

\* the divisor sampleFlowRate * samplingPeriod of the frame read is zero
N2DivisorZero ==
  LET sfr == SubSeq(frame, 37, 40)
      sp  == SubSeq(frame, 45, 48)
  IN  /\ F32IsFinite(sfr) /\ F32IsFinite(sp)
      /\ (F32IsZero(sfr) \/ F32IsZero(sp))
N3DivisorZero ==
  frame[53] + 256 * frame[54] = 0 \/ frame[55] + 256 * frame[56] = 0

\* C7: histogram(number_concentration=True) of OPC-N2 (firmware >= 16) and
\* OPC-N3 returns no reading when the divisor decoded from the frame is zero.
C7_ZeroDivisorFails ==
  /\ (cls = "N2" /\ op = "histogram" /\ nc /\ Read62 /\ firmware.version >= 16000
        /\ N2DivisorZero)
       => outcome # "dict"
  /\ (cls = "N3" /\ op = "histogram" /\ nc /\ Read86 /\ N3DivisorZero)
       => outcome # "dict"

C7_Witness ==
  /\ cls = "N2" /\ op = "histogram" /\ nc /\ Read62 /\ firmware.version >= 16000
  /\ N2FrameConsistent /\ N2DivisorZero
  /\ outcome = "ZeroDivisionError"

\* v is raw / conv as Python computes it
IsQuotient(v, raw, conv) ==
  CASE conv.k = "nan" -> v.k = "nan"
    [] conv.k = "inf" -> v = IntV(0)
    [] OTHER          -> /\ v.k = "num" /\ v.d > 0 /\ conv.n # 0
                         /\ v.n * conv.n = raw * conv.d * v.d

\* the divisor of the frame read
N2Conv ==
  PyMul(_calculate_float(SubSeq(frame, 37, 40)), _calculate_float(SubSeq(frame, 45, 48)))
N3Conv == Rat((frame[53] + 256 * frame[54]) * (frame[55] + 256 * frame[56]), 10000)

\* C8: a reading returned by histogram() holds, for every bin, the raw count
\* of the frame when number_concentration is False and that count divided by
\* sampleFlowRate * samplingPeriod when it is True; the checksum, MToF and PM
\* fields are the decoded ones, not divided.
C8_BinsRawOrNormalized ==
  /\ (cls = "N2" /\ op = "histogram" /\ Read62 /\ outcome = "dict")
       => /\ Len(data.Bins) = 16
          /\ \A i \in 1..16 :
               IF nc THEN IsQuotient(data.Bins[i], RawCount(i), N2Conv)
               ELSE data.Bins[i] = IntV(RawCount(i))
          /\ data.Checksum = IntV(frame[49] + 256 * frame[50])
          /\ \A i \in 1..4 : data.MToF[i] = Rat(frame[32 + i], 3)
          /\ data.PM1 = _calculate_float(SubSeq(frame, 51, 54))
          /\ data.PM25 = _calculate_float(SubSeq(frame, 55, 58))
          /\ data.PM10 = _calculate_float(SubSeq(frame, 59, 62))
  /\ (cls = "N3" /\ op = "histogram" /\ Read86 /\ outcome = "dict")
       => /\ Len(data.Bins) = 24
          /\ \A i \in 1..24 :
               IF nc THEN IsQuotient(data.Bins[i], RawCount(i), N3Conv)
               ELSE data.Bins[i] = IntV(RawCount(i))
          /\ data.Checksum = IntV(frame[85] + 256 * frame[86])
          /\ \A i \in 1..4 : data.MToF[i] = Rat(frame[48 + i], 3)
          /\ data.PM1 = _calculate_float(SubSeq(frame, 61, 64))
          /\ data.PM25 = _calculate_float(SubSeq(frame, 65, 68))
          /\ data.PM10 = _calculate_float(SubSeq(frame, 69, 72))

\* the last of the 24 bins, 65535 counts, over the divisor 1.00 * 2.00
C8_Witness ==
  /\ cls = "N3" /\ op = "histogram" /\ nc /\ Read86 /\ outcome = "dict"
  /\ N3FrameConsistent
  /\ data.Bins[24] = [k |-> "num", n |-> 65535, d |-> 2]

\* C9: once a histogram read made by wait() has returned a reading, the next
\* step of wait() is its return of the session.
C9_WaitReturnsOnSuccess ==
  [][(pc = "wait_loop" /\ op = "histogram" /\ outcome = "dict")
       => (pc' = "idle" /\ outcome' = "self")]_vars

\* C10: config2() on a session whose firmware version is 17.x raises
\* FirmwareVersionError and sends nothing; on a session whose firmware version
\* is 18.0 it sends 0x3D, reads 9 bytes and returns the mapping decoded from
\* them.
C10_Config2Gated ==
  (cls = "N2" /\ op = "config2" /\ pc # "call")
    => /\ (firmware.version >= 17000 /\ firmware.version < 18000)
            => (outcome = "FirmwareVersionError" /\ sent = <<>> /\ frame = <<>>)
       /\ firmware.version = 18000
            => /\ sent = <<61, 0, 0, 0, 0, 0, 0, 0, 0, 0>>
               /\ Len(frame) = 9
               /\ outcome = "dict"
               /\ data = [AMSamplingInterval    |-> frame[1] + 256 * frame[2],
                          AMIdleIntervalCount   |-> frame[3] + 256 * frame[4],
                          AMFanOnIdle           |-> frame[5],
                          AMLaserOnIdle         |-> frame[6],
                          AMMaxDataArraysInFile |-> frame[7] + 256 * frame[8],
                          AMOnlySavePMData      |-> frame[9]]

C10_Witness ==
  /\ cls = "N2" /\ op = "config2" /\ pc = "idle"
  /\ firmware.version = 17500
  /\ outcome = "FirmwareVersionError" /\ sent = <<>>

\* C11: a session constructed with a firmware argument (major, minor) stores
\* that major and minor and, as version, the decimal major.minor.
C11_FirmwareAsGiven ==
  (outcome = "constructed" /\ firmware.major # NoneI)
    => firmware.version = VersionOf(firmware.major, firmware.minor)

\* C12: a session constructed without a firmware argument has read the info
\* string during construction: the constructor has sent 0x3F at least once.
C12_CtorReadsInfoString ==
  (outcome = "constructed" /\ firmware.major = NoneI)
    => (sent # <<>> /\ sent[1] = 63)

\* C13: a construction over a good connection without a firmware argument, in
\* which no version was parsed from an info string, ends with
\* FirmwareVersionError and produces no session.
C13_NoVersionNoSession ==
  (cnxn = "ok" /\ firmware.major = NoneI /\ op = "none"
     /\ pc \in {"idle", "failed"})
    => (pc = "failed" /\ outcome = "FirmwareVersionError")

\* C14 as stated: once construction is over, no step changes the stored
\* firmware.
C14_FirmwareNeverChanges == [][pc # "new" => firmware' = firmware]_vars

\* C14, amended: once construction is over, the only step that changes the
\* stored firmware is OPCN2.read_firmware; on, off, histogram, config2, the
\* power setters and wait leave major, minor and version as they were.
C14_OnlyReadFirmwareChanges ==
  [][(pc # "new" /\ firmware' # firmware)
       => (cls = "N2" /\ op = "read_firmware" /\ pc = "call")]_vars

C14_Witness ==
  /\ cls = "N2" /\ op = "on" /\ pc = "idle" /\ outcome = "True"
  /\ firmware = [major |-> 17, minor |-> 5, version |-> 17500]

\* C15: OPCN2 constructed over a good mode-1 connection with no firmware
\* argument and no wait completes without raising and yields a session.
C15_DocumentedExampleConstructs ==
  (cls = "N2" /\ cnxn = "ok" /\ firmware.major = NoneI /\ op = "none")
    => (pc = "idle" /\ outcome = "constructed")

\* C16: set_fan_power and set_laser_power with a power below 0 or above 255
\* raise ValueError and nothing has been sent on the bus.
C16_OutOfRangeRejected ==
  (cls = "N2" /\ op \in PowerSetters /\ pc = "idle"
     /\ (power < 0 \/ power > 255))
    => (outcome = "ValueError" /\ sent = <<>> /\ frame = <<>>)

\* C17: a constructor given a connection without xfer, or one whose mode is
\* not 1, fails with nothing sent and nothing read, and no session exists.
C17_BadTransportFailsFast ==
  (cnxn \in {"noxfer", "mode0"})
    => (pc = "failed" /\ outcome = "AssertionError"
        /\ sent = <<>> /\ frame = <<>>)

C17_Witness ==
  /\ cnxn = "mode0" /\ pc = "failed" /\ outcome = "AssertionError"
  /\ sent = <<>>

\* C18: on() and off() of OPC-N2 and OPC-N1 are one step from call to return
\* whatever the device answers: OPC-N2 sends 0x03 once and then its
\* sub-command transfer ([0x00, 0x01] for on, [0x01] for off), OPC-N1 sends
\* its one command byte (0x0C for on, 0x03 for off), and the status is read
\* once.
C18_SingleShotPower ==
  [][(pc = "call" /\ cls \in {"N1", "N2"} /\ op \in {"on", "off"})
       => /\ pc' \in {"idle", "wait_loop"}
          /\ outcome' \in {"True", "False"}
          /\ sent' = (CASE cls = "N2" /\ op = "on"  -> <<3, 0, 1>>
                        [] cls = "N2" /\ op = "off" -> <<3, 1>>
                        [] cls = "N1" /\ op = "on"  -> <<12>>
                        [] OTHER                    -> <<3>>)
          /\ Len(frame') = (IF cls = "N2" THEN 2 ELSE 1)]_vars

C18_Witness ==
  /\ cls = "N2" /\ op = "off" /\ pc = "idle"
  /\ sent = <<3, 1>> /\ frame[1] = 0 /\ outcome = "False"

\* C19: OPCN3.on and OPCN3.off return True exactly when the two command
\* responses after the handshakes are 0xF3 and the two selector responses are
\* 0x03; OPCN2.on and OPCN2.off return True exactly when the command response
\* is 0xF3 and the first sub-command response is 0x03; they return a boolean
\* for every combination of response bytes.
C19_PowerBooleans ==
  (op \in {"on", "off"} /\ pc \in {"idle", "wait_loop"})
    => /\ cls = "N3" => /\ outcome \in {"True", "False"}
                        /\ (outcome = "True") <=> (resps = <<243, 3, 243, 3>>)
       /\ cls = "N2" => /\ outcome \in {"True", "False"}
                        /\ (outcome = "True") <=> (frame = <<243, 3>>)

C19_Witness ==
  /\ cls = "N3" /\ op = "off" /\ pc = "idle"
  /\ resps = <<243, 3, 243, 3>> /\ outcome = "True"

\* C20: in a reading OPCN2.histogram returns on firmware 16 or later, with v
\* the little-endian integer of bytes 40-43: v > 98000 gives Pressure = v and
\* no Temperature; otherwise v < 500 gives Temperature = v and no Pressure;
\* otherwise neither; never both.
C20_TemperatureOrPressure ==
  (cls = "N2" /\ op = "histogram" /\ outcome = "dict"
     /\ firmware.version >= 16000)
    => LET v == frame[41] + 256 * frame[42] + 65536 * frame[43]
                  + 16777216 * frame[44]
       IN  /\ v > 98000
             => (data.Pressure = IntV(v) /\ data.Temperature = NoneV)
           /\ (v <= 98000 /\ v < 500)
             => (data.Temperature = IntV(v) /\ data.Pressure = NoneV)
           /\ (v <= 98000 /\ v >= 500)
             => (data.Temperature = NoneV /\ data.Pressure = NoneV)
           /\ (data.Temperature = NoneV \/ data.Pressure = NoneV)

C20_Witness ==
  /\ cls = "N2" /\ op = "histogram" /\ outcome = "dict"
  /\ firmware.version = 18000
  /\ data.Temperature = IntV(499) /\ data.Pressure = NoneV

\* C21: where OPCN2.histogram (firmware version below 16) and
\* OPCN1.read_histogram decode the sampling period, _calculate_period does
\* not raise, and a reading of firmware below 16 carries the little-endian
\* integer of the four bytes divided by 12e6.
C21_PeriodByFirmware ==
  (pc = "idle" /\ Len(frame) = 62
     /\ \/ cls = "N2" /\ op = "histogram" /\ firmware.version < 16000
        \/ cls = "N1" /\ op = "read_histogram")
    => /\ outcome # "TypeError"
       /\ outcome = "dict"
            => data.SamplingPeriod = Rat(LE32(SubSeq(frame, 45, 48)), 12000000)

\* C22: a read that has sent its command byte has, whenever it returns or
\* fails, read its whole frame: 62 bytes for OPCN2.histogram, 86 for
\* OPCN3.histogram, 256 for config, 9 for config2, one read per byte,
\* whatever the bytes are; a checksum failure comes with a whole frame.
C22_FrameReadWhole ==
  (pc \notin {"new", "call", "hist_poll"} /\ sent # <<>>)
    => /\ (cls = "N2" /\ op = "histogram")
            => (Len(frame) = 62 /\ Len(sent) = 63 /\ sent[1] = 48)
       /\ (cls = "N3" /\ op = "histogram")
            => (Len(frame) = 86 /\ Len(sent) = 86)
       /\ op = "config"
            => (Len(frame) = 256 /\ Len(sent) = 257 /\ sent[1] = 60)
       /\ op = "config2"
            => (Len(frame) = 9 /\ Len(sent) = 10 /\ sent[1] = 61)

C22_Witness ==
  /\ cls = "N2" /\ op = "config" /\ pc = "idle" /\ outcome = "dict"
  /\ Len(frame) = 256 /\ frame[256] = 255

\* C23: ping is one transfer, of the byte 0xCF; it returns True when the
\* byte received is 0xF3 and False otherwise, and leaves the session as it
\* was.
C23_PingOneTransfer ==
  [][(pc = "call" /\ op = "ping")
       => /\ sent' = <<207>>
          /\ Len(frame') = 1
          /\ outcome' = (IF frame'[1] = 243 THEN "True" ELSE "False")
          /\ pc' = "idle"
          /\ session' = session]_vars

C23_Witness ==
  /\ op = "ping" /\ pc = "idle" /\ sent = <<207>>
  /\ frame = <<3>> /\ outcome = "False"

C26_PowerBytes ==
  (cls = "N2" /\ op \in PowerSetters /\ pc = "idle" /\ power \in 0..255)
    => LET t == IF op = "set_fan_power" THEN 0 ELSE 1
       IN  /\ sent = <<66, t, power>>
           /\ Len(frame) = 3
           /\ outcome = (IF frame = <<243, 66, t>> THEN "True" ELSE "False")

C26_Witness ==
  /\ cls = "N2" /\ op = "set_laser_power" /\ pc = "idle" /\ power = 255
  /\ sent = <<66, 1, 255>> /\ frame = <<243, 66, 1>> /\ outcome = "True"

\* C27: lookup_bin_boundary(x) is, for every integer x, the table entry at
\* min(max(x, 0), 4095); it raises for none.
C27_LookupSaturates ==
  (op = "lookup_bin_boundary" /\ pc = "idle")
    => LET x == argv[1]
           i == IF x < 0 THEN 0 ELSE IF x > 4095 THEN 4095 ELSE x
       IN  /\ outcome = "float"
           /\ data.value = OPC_LOOKUP[i + 1]

C27_Witness ==
  /\ op = "lookup_bin_boundary" /\ pc = "idle" /\ argv = <<0 - 1>>
  /\ outcome = "float" /\ data.value = OPC_LOOKUP[1]

\* C28: calculate_bin_boundary(bb) is an index in 0..4095 at which
\* |table[i] - bb| is least over the whole table, and the lowest such index.
C28_NearestLowestIndex ==
  (op = "calculate_bin_boundary" /\ pc = "idle")
    => LET bb == argv[1]
           i  == data.value
       IN  /\ outcome = "int"
           /\ i \in 0..4095
           /\ \A j \in 0..4095 :
                /\ Abs(OPC_LOOKUP[i + 1] - bb) <= Abs(OPC_LOOKUP[j + 1] - bb)
                /\ j < i => Abs(OPC_LOOKUP[i + 1] - bb) < Abs(OPC_LOOKUP[j + 1] - bb)

C28_Witness ==
  /\ op = "calculate_bin_boundary" /\ pc = "idle" /\ argv = <<6>>
  /\ outcome = "int" /\ data.value = 8

\* C29: _16bit_unsigned(lsb, msb) is msb * 256 + lsb, lies in 0..65535, and
\* splits back into lsb (value % 256) and msb (value / 256).
C29_U16 ==
  (op = "_16bit_unsigned" /\ pc = "idle")
    => /\ outcome = "int"
       /\ data.value = argv[2] * 256 + argv[1]
       /\ data.value \in 0..65535
       /\ data.value % 256 = argv[1]
       /\ data.value \div 256 = argv[2]

C29_Witness ==
  /\ op = "_16bit_unsigned" /\ pc = "idle" /\ argv = <<255, 128>>
  /\ data.value = 33023

\* C30: write_config_variables, write_gsc_sfr and write_bin_particle_density
\* return without an error, having sent nothing, read nothing and left the
\* session as it was, whatever the argument and the session.
C30_PlaceholdersDoNothing ==
  [][(pc = "call" /\ op \in Placeholders)
       => /\ sent' = <<>> /\ frame' = <<>>
          /\ session' = session
          /\ outcome' = "None"
          /\ pc' = "idle"]_vars

C30_Witness ==
  /\ cls = "N2" /\ op = "write_config_variables" /\ pc = "idle"
  /\ argv = <<1>> /\ outcome = "None" /\ sent = <<>>
  /\ firmware.version = 17500

\* a call that has failed in one of three ways: OPCN2.histogram on a checksum
\* mismatch, a histogram on a zero divisor, a power setter on a rejected
\* power
FailedLocally ==
  /\ pc = "idle"
  /\ \/ cls = "N2" /\ op = "histogram" /\ outcome = "None"
     \/ op = "histogram" /\ outcome = "ZeroDivisionError"
     \/ op \in PowerSetters /\ outcome = "ValueError"

\* C31: a step that ends a call in one of these failures leaves class, model,
\* connection and firmware as they were, and the call that follows starts
\* from the session alone: nothing the failed call read, sent or returned,
\* and no caller it was running under, is left when the next call begins.
C31_FailedOperationLocal ==
  [][/\ (pc = "call" /\ FailedLocally') => session' = session
     /\ (FailedLocally /\ pc' = "call")
          => /\ session' = session
             /\ caller' = "none" /\ inctor' = FALSE
             /\ a' = 0 /\ b' = 0 /\ polls' = 0 /\ seg' = 0
             /\ resps' = <<>> /\ ready' = FALSE /\ selectors' = <<>>
             /\ sent' = <<>> /\ frame' = <<>>
             /\ outcome' = "none" /\ data' = NoData]_vars

C31_Witness ==
  /\ FailedLocally
  /\ cls = "N3" /\ outcome = "ZeroDivisionError" /\ Len(frame) = 86
  /\ firmware = [major |-> 16, minor |-> 0, version |-> 18000]

\* C32: OPCN1.read_bin_boundaries returns 17 bin boundaries, 'Bin Boundary 0'
\* to 'Bin Boundary 16'.
C32_SeventeenBoundaries ==
  (cls = "N1" /\ op = "read_bin_boundaries" /\ pc = "idle")
    => (outcome = "dict" /\ DOMAIN data.BinBoundary = 1..17)

\* C33: OPCN3.histogram leaves its poll loop for the read of the 86 bytes
\* only from a round whose first transfer returned 0x31 and whose second
\* returned 0xF3; after any other round it is still polling.
C33_FrameReadAfterReadyRound ==
  [][/\ (pc = "hist_poll" /\ polls' = polls + 1 /\ ~(a' = 49 /\ b' = 243))
          => (pc' = "hist_poll" /\ frame' = <<>>)
     /\ (pc = "hist_poll" /\ frame' # <<>>)
          => (polls >= 1 /\ a = 49 /\ b = 243 /\ Len(frame') = 86)]_vars

C33_Witness ==
  /\ cls = "N3" /\ op = "histogram" /\ pc = "idle"
  /\ Len(frame) = 86 /\ outcome = "dict"

\* C34: OPCN3.on sends the selector 0x03 and then 0x07, OPCN3.off sends 0x06
\* and then 0x02, and each selector goes out from a handshake of its own that
\* has ended with 0x31.
C34_SelectorOrder ==
  [][(cls = "N3" /\ op \in {"on", "off"} /\ selectors' # selectors
        /\ selectors' # <<>>)
       => /\ pc = "hs" /\ a = 49
          /\ seg = Len(selectors) + 1
          /\ selectors' \in (IF op = "on" THEN {<<3>>, <<3, 7>>}
                             ELSE {<<6>>, <<6, 2>>})]_vars

C34_Witness ==
  /\ cls = "N3" /\ op = "off" /\ pc = "idle"
  /\ selectors = <<6, 2>> /\ outcome = "False"

\* C35: OPCN2 constructed over a good connection with a firmware argument
\* (major, minor) raises FirmwareVersionError when major < 14 or major > 18,
\* and only then; with major in 14..18 the session is there.
C35_FirmwareRange ==
  (cls = "N2" /\ cnxn = "ok" /\ op = "none" /\ firmware.major # NoneI)
    => IF firmware.major < 14 \/ firmware.major > 18
       THEN pc = "failed" /\ outcome = "FirmwareVersionError"
       ELSE pc = "idle" /\ outcome = "constructed"

C35_Witness ==
  /\ cls = "N2" /\ cnxn = "ok" /\ op = "none" /\ firmware.major = 19
  /\ pc = "failed" /\ outcome = "FirmwareVersionError"

\* C36: the model recorded in a session is that of its class: 'N1' for OPCN1,
\* 'N2' for OPCN2, 'N3' for OPCN3.
C36_ModelMatchesClass == pc = "idle" => model = cls

====
